---- MODULE Spec2Model ----
(***************************************************************************)
(* Streaming conversation engine of agent-jules: the chat service          *)
(* (services/chat-service.ts) and the React view that drives it            *)
(* (components/agent-chat-view.tsx).                                        *)
(*                                                                         *)
(* Text is a sequence of one-character tokens.  Identifiers produced by    *)
(* nanoid() are fresh naturals.  Time is the millisecond clock read by     *)
(* new Date().                                                              *)
(*                                                                         *)
(* React state lives in the view variables; a handler reads the values of  *)
(* the render it was created in (the record `r`), and writes through the   *)
(* state setters.  Code after an `await` runs as a queued continuation.    *)
(***************************************************************************)
EXTENDS Integers, Sequences, FiniteSets, TLC

VARIABLES
    mockSessions,    \* chat-service.ts: let mockSessions (array of session objects)
    mockMessages,    \* chat-service.ts: let mockMessages (chatId -> array of messages)
    streams,         \* one record per sendMessage call: the closure of its setInterval
    clock,           \* Date.now()
    nextId,          \* number of nanoid() calls so far
    chatSessions,    \* view state
    currentChatId,   \* view state ("none" is null)
    messages,        \* view state
    newMessage,      \* view state (the draft)
    editingMessage,  \* view state (id of the message in edit mode, 0 is null)
    isStreaming,     \* view state (the single-flight lock)
    r,               \* the values of the last render, read by the handlers
    pending,         \* continuations waiting after an await, in promise order
    last,            \* the handler or callback that ran last, with its inputs
    resends,         \* number of resendMessage calls that produced a message
    intents,         \* number of intents the user has issued
    failures         \* service calls that rejected, and rejections nobody caught

vars == <<mockSessions, mockMessages, streams, clock, nextId, chatSessions,
          currentChatId, messages, newMessage, editingMessage, isStreaming,
          r, pending, last, resends, intents, failures>>

serviceVars == <<mockSessions, mockMessages, streams, nextId, resends, failures>>
viewVars == <<chatSessions, currentChatId, messages, newMessage, editingMessage, isStreaming>>

----------------------------------------------------------------------------
(* Bounds *)

T0 == 3              \* the millisecond at which the service module is loaded
MaxClock == 8        \* the clock stops here
MaxIntents == 3      \* intents the user issues
MaxSends == 2        \* sendMessage calls
MaxResends == 1      \* resendMessage calls that append a message
MaxChunks == 2       \* chunks of a reply before its last chunk
MaxPending == 2      \* continuations waiting at the same time
MaxFailures == 1     \* service calls that reject

ChatIds == {"s1", "s2"}
NoChat == "none"
NoMsg == 0

----------------------------------------------------------------------------
(* Text *)

Min(a, b) == IF a < b THEN a ELSE b

\* String.prototype.substring(0, n)
Substring(s, n) == SubSeq(s, 1, Min(Len(s), n))

IsSpace(c) == c = " "

RECURSIVE TrimLeft(_)
TrimLeft(s) == IF s # <<>> /\ IsSpace(Head(s)) THEN TrimLeft(Tail(s)) ELSE s

RECURSIVE TrimRight(_)
TrimRight(s) ==
    IF s # <<>> /\ IsSpace(s[Len(s)]) THEN TrimRight(SubSeq(s, 1, Len(s) - 1)) ELSE s

\* a trim that returns the text as typed
Trim_AsTyped(s) == s

\* String.prototype.trim()
Trim(s) == TrimRight(TrimLeft(s))

IsPrefix(p, s) == Len(p) <= Len(s) /\ SubSeq(s, 1, Len(p)) = p

IsSuffix(p, s) == Len(p) <= Len(s) /\ SubSeq(s, Len(s) - Len(p) + 1, Len(s)) = p

Dots == <<".", ".", ".">>

SnippetLen == 30
ResendSnippetLen == 50

\* `User: ${content.substring(0,30)}...`
UserSnippet(content) == <<"U", ":", " ">> \o Substring(content, SnippetLen) \o Dots

\* `Agent: ${content.substring(0,30)}...`
AgentSnippet(content) == <<"A", ":", " ">> \o Substring(content, SnippetLen) \o Dots

\* `(Re-Ack) Agent received: "${content.substring(0, 30)}..."`
ReAckContent(content) == <<"R", ":", " ">> \o Substring(content, SnippetLen) \o Dots

\* `${msg.content}\n(Error sending: ${error.message})`
ErrorSendingNote(content) == content \o <<"\n", "E">>

\* `${msg.content}\n(Failed to send)`
FailedToSendNote(content) == content \o <<"\n", "F">>

----------------------------------------------------------------------------
(* Sequences *)

RECURSIVE Concat(_)
Concat(ss) == IF ss = <<>> THEN <<>> ELSE Head(ss) \o Concat(Tail(ss))

\* Array.prototype.findIndex, 0 when absent
FindIndex(s, P(_)) ==
    IF \E i \in 1..Len(s) : P(s[i])
    THEN CHOOSE i \in 1..Len(s) : P(s[i]) /\ \A j \in 1..(i - 1) : ~P(s[j])
    ELSE 0

MapSeq(s, F(_)) == [i \in 1..Len(s) |-> F(s[i])]

Range(s) == {s[i] : i \in 1..Len(s)}

\* insert the pair x = <<key, element>> into the descending list s, after every
\* pair whose key is not smaller
RECURSIVE InsertDesc(_, _)
InsertDesc(x, s) ==
    IF s = <<>> THEN <<x>>
    ELSE IF Head(s)[1] >= x[1] THEN <<Head(s)>> \o InsertDesc(x, Tail(s))
    ELSE <<x>> \o s

RECURSIVE SortPairsDesc(_, _)
SortPairsDesc(s, acc) ==
    IF s = <<>> THEN acc
    ELSE SortPairsDesc(Tail(s), InsertDesc(Head(s), acc))

\* Array.prototype.sort((a,b) => key(b) - key(a)): descending by key, stable
SortDesc(s, Key(_)) ==
    LET pairs == [i \in 1..Len(s) |-> <<Key(s[i]), s[i]>>]
        sorted == SortPairsDesc(pairs, <<>>)
    IN  [i \in 1..Len(s) |-> sorted[i][2]]

----------------------------------------------------------------------------
(* The chat service: chat-service.ts *)

\* the text of the k-th chunk of a reply
Fragment(k) == IF k % 2 = 1 THEN <<"a">> ELSE <<"b">>

TextChunk(f) == [type |-> "text_chunk", content |-> f]
FormChunk == [type |-> "form_definition", content |-> <<>>]
ErrorChunk == [type |-> "error_chunk", content |-> <<>>]
EndChunk == [type |-> "end_of_stream", content |-> <<>>]

BodyChunks == {TextChunk(Fragment(k)) : k \in 1..MaxChunks}
TerminalChunks == {EndChunk, ErrorChunk}

\* the chunk the channel can produce after the chunks `sofar`: text chunks,
\* then one last chunk that ends the reply or reports an error; the entries of
\* streamChunks are revealed as the interval reaches them.  The list written
\* in sendMessage (five text chunks and end_of_stream) is one such sequence;
\* the callbacks take any StreamedMessageChunk, so the shorter sequences and
\* the ones that end in error_chunk are covered as well.
NextChunks(sofar) ==
    IF sofar # <<>> /\ sofar[Len(sofar)] \in TerminalChunks THEN {}
    ELSE IF Len(sofar) < MaxChunks
    THEN {TextChunk(Fragment(Len(sofar) + 1))} \cup TerminalChunks
    ELSE TerminalChunks

\* the words a user can type
Drafts == {<<>>, <<" ">>, <<"h">>}

SeedSessions ==
    <<[id |-> "s1", lastMessageAt |-> T0, snippet |-> AgentSnippet(<<"p">>)],
      [id |-> "s2", lastMessageAt |-> T0, snippet |-> UserSnippet(<<"d">>)]>>

SeedMessages ==
    [c \in ChatIds |->
        IF c = "s1"
        THEN <<[id |-> 1, chatId |-> "s1", role |-> "user", content |-> <<"o">>,
                timestamp |-> 1, status |-> "delivered"],
               [id |-> 2, chatId |-> "s1", role |-> "agent", content |-> <<"q">>,
                timestamp |-> 2, status |-> "none"]>>
        ELSE <<[id |-> 3, chatId |-> "s2", role |-> "user", content |-> <<"d">>,
                timestamp |-> 0, status |-> "delivered"]>>]

SeedIds == 3

\* `temp-user-${nanoid()}`
TempId(n) == 0 - n

\* a key that puts the oldest session first
LastMessageAt_Oldest(s) == 0 - s.lastMessageAt

\* new Date(s.lastMessageAt).getTime(), the key of the sort
LastMessageAt(s) == s.lastMessageAt

\* mockSessions.find(s => s.id === chatId) exists
HasSession(sessions, chatId) == \E i \in 1..Len(sessions) : sessions[i].id = chatId

\* the touch without the sort
TouchSession_NoSort(sessions, chatId, t, snip) ==
    [i \in 1..Len(sessions) |->
        IF sessions[i].id = chatId
        THEN [sessions[i] EXCEPT !.lastMessageAt = t, !.snippet = snip]
        ELSE sessions[i]]

\* session.lastMessageAt = t; session.lastMessageSnippet = snip; mockSessions.sort(...)
TouchSession(sessions, chatId, t, snip) ==
    IF HasSession(sessions, chatId)
    THEN SortDesc([i \in 1..Len(sessions) |->
                      IF sessions[i].id = chatId
                      THEN [sessions[i] EXCEPT !.lastMessageAt = t, !.snippet = snip]
                      ELSE sessions[i]],
                  LastMessageAt)
    ELSE sessions

\* every message of the store, chat by chat
AllStored(store) == UNION {Range(store[c]) : c \in ChatIds}

\* the stored message object with this id
StoredMsg(store, id) == CHOOSE m \in AllStored(store) : m.id = id

IsStored(store, id) == \E m \in AllStored(store) : m.id = id

\* a getMessages that answers an unknown id with the first session's messages
GetMessages_FirstChat(store, chatId) ==
    IF chatId \in ChatIds THEN store[chatId] ELSE store["s1"]

\* getMessages: a copy of the array whose elements are the stored objects
GetMessages(store, chatId) == IF chatId \in ChatIds THEN store[chatId] ELSE <<>>

\* getChatSessions: a copy of the array whose elements are the session objects
GetChatSessions(sessions) == sessions

\* a user message stored as delivered
UserMessage_Delivered(id, chatId, content, now) ==
    [id |-> id, chatId |-> chatId, role |-> "user", content |-> content,
     timestamp |-> now, status |-> "delivered"]

\* sendMessage up to its return: the user message is stored, the session is
\* touched and the interval of the reply is set up
UserMessage(id, chatId, content, now) ==
    [id |-> id, chatId |-> chatId, role |-> "user", content |-> content,
     timestamp |-> now, status |-> "sent"]

NewStream(chatId, userMessageId, agentMessageId, tempId, found) ==
    [chatId |-> chatId, userMessageId |-> userMessageId, agentMessageId |-> agentMessageId,
     currentAgentContent |-> <<>>, streamChunks |-> <<>>, chunkIndex |-> 0,
     cleared |-> FALSE, session |-> found, tempUserMessageId |-> tempId,
     \* what onStreamEnd and onStreamError were given
     ends |-> <<>>, errors |-> 0]

\* the fragment put in front of the content
Accumulate_Prepend(acc, chunk) ==
    IF chunk.type = "text_chunk" /\ chunk.content # <<>> THEN chunk.content \o acc ELSE acc

\* currentAgentContent += chunk.content, for a text chunk with content
Accumulate(acc, chunk) ==
    IF chunk.type = "text_chunk" /\ chunk.content # <<>> THEN acc \o chunk.content ELSE acc

\* a final message stored as still streaming
FinalAgentMessage_Streaming(st, content, now) ==
    [id |-> st.agentMessageId, chatId |-> st.chatId, role |-> "agent",
     content |-> content, timestamp |-> now, status |-> "streaming"]

FinalAgentMessage(st, content, now) ==
    [id |-> st.agentMessageId, chatId |-> st.chatId, role |-> "agent",
     content |-> content, timestamp |-> now, status |-> "delivered"]

\* for (const chatId in mockMessages): the keys in the order they were added
ChatOrder == <<"s1", "s2">>

\* a search that takes a message of any role
EditTarget_AnyRole(store, messageId) ==
    LET Hit(c) == {i \in 1..Len(store[c]) : store[c][i].id = messageId}
        Chats == {k \in 1..Len(ChatOrder) : Hit(ChatOrder[k]) # {}}
    IN  IF Chats = {} THEN <<>>
        ELSE LET k == CHOOSE x \in Chats : \A y \in Chats : x <= y
             IN  <<ChatOrder[k], CHOOSE i \in Hit(ChatOrder[k]) : TRUE>>

\* editMessage: the chat and the index of the first user message with this
\* id, <<>> when there is none
EditTarget(store, messageId) ==
    LET Hit(c) == {i \in 1..Len(store[c]) :
                      /\ store[c][i].id = messageId
                      /\ \A j \in 1..(i - 1) : store[c][j].id # messageId}
        Good(c) == {i \in Hit(c) : store[c][i].role = "user"}
        First(c) == CHOOSE i \in Good(c) : TRUE
        Chats == {k \in 1..Len(ChatOrder) : Good(ChatOrder[k]) # {}}
    IN  IF Chats = {} THEN <<>>
        ELSE LET k == CHOOSE x \in Chats : \A y \in Chats : x <= y
             IN  <<ChatOrder[k], First(ChatOrder[k])>>

\* an edit that rewrites every message of the chat
EditMessage_WholeChat(store, messageId, newContent, now) ==
    LET target == EditTarget(store, messageId)
    IN  IF target # <<>>
        THEN LET c == target[1]
                 edited == [i \in 1..Len(store[c]) |->
                               [store[c][i] EXCEPT !.content = newContent,
                                                   !.timestamp = now]]
             IN  [store |-> [store EXCEPT ![c] = edited], result |-> <<edited[target[2]]>>]
        ELSE [store |-> store, result |-> <<>>]

\* editMessage: the store it leaves and the copy it returns (<<>> is null)
EditMessage(store, messageId, newContent, now) ==
    LET target == EditTarget(store, messageId)
    IN  IF target # <<>>
        THEN LET c == target[1]
                 i == target[2]
                 edited == [store[c][i] EXCEPT !.content = newContent, !.timestamp = now]
             IN  [store |-> [store EXCEPT ![c][i] = edited], result |-> <<edited>>]
        ELSE [store |-> store, result |-> <<>>]

\* a search that falls back on the first message of the first chat
ResendTarget_Fallback(store, messageId) ==
    LET Hit(c) == {i \in 1..Len(store[c]) : store[c][i].id = messageId}
        Chats == {k \in 1..Len(ChatOrder) : Hit(ChatOrder[k]) # {}}
    IN  IF Chats = {} THEN <<ChatOrder[1], 1>>
        ELSE LET k == CHOOSE x \in Chats : \A y \in Chats : x <= y
             IN  <<ChatOrder[k], CHOOSE i \in Hit(ChatOrder[k]) : TRUE>>

\* resendMessage: the chat and the index of the first message with this id,
\* <<>> when there is none
ResendTarget(store, messageId) ==
    LET Hit(c) == {i \in 1..Len(store[c]) : store[c][i].id = messageId}
        First(c) == CHOOSE i \in Hit(c) : \A j \in Hit(c) : i <= j
        Chats == {k \in 1..Len(ChatOrder) : Hit(ChatOrder[k]) # {}}
    IN  IF Chats = {} THEN <<>>
        ELSE LET k == CHOOSE x \in Chats : \A y \in Chats : x <= y
             IN  <<ChatOrder[k], First(ChatOrder[k])>>

AgentResponse(id, chatId, original, now) ==
    [id |-> id, chatId |-> chatId, role |-> "agent",
     content |-> ReAckContent(original.content), timestamp |-> now, status |-> "none"]

----------------------------------------------------------------------------
(* The view: agent-chat-view.tsx *)

\* an element of the view's arrays is either the service's own object (ref) or
\* a copy the view made; a ref reads the fields the service may assign from
\* the service's object
RefMsg(m) == [m EXCEPT !.content = <<>>, !.timestamp = 0] @@ [ref |-> TRUE]
OwnMsg(m) == m @@ [ref |-> FALSE]

DerefMsg(store, m) ==
    IF m.ref /\ IsStored(store, m.id)
    THEN [m EXCEPT !.content = StoredMsg(store, m.id).content,
                   !.timestamp = StoredMsg(store, m.id).timestamp]
    ELSE m

RefSession(s) == [id |-> s.id, lastMessageAt |-> 0, snippet |-> <<>>, ref |-> TRUE]

DerefSession(sessions, s) ==
    IF s.ref
    THEN LET o == CHOOSE x \in Range(sessions) : x.id = s.id
         IN  [s EXCEPT !.lastMessageAt = o.lastMessageAt, !.snippet = o.snippet]
    ELSE s

\* what the view shows
ShownMessages == [i \in 1..Len(messages) |-> DerefMsg(mockMessages, messages[i])]
ShownSessions == [i \in 1..Len(chatSessions) |-> DerefSession(mockSessions, chatSessions[i])]

\* a touch that never moves lastMessageAt past its first copy
ViewTouch_KeepsFirst(list, sessions, chatId, t, snip) ==
    LET mapped == [i \in 1..Len(list) |->
                      IF list[i].id = chatId
                      THEN [id |-> chatId,
                            lastMessageAt |-> IF list[i].ref THEN t ELSE list[i].lastMessageAt,
                            snippet |-> snip, ref |-> FALSE]
                      ELSE list[i]]
        Key(s) == DerefSession(sessions, s).lastMessageAt
    IN  SortDesc(mapped, Key)

\* prevSessions.map(s => s.id === chatId ? {...s, lastMessageAt, lastMessageSnippet} : s).sort(...)
ViewTouch(list, sessions, chatId, t, snip) ==
    LET mapped == [i \in 1..Len(list) |->
                      IF list[i].id = chatId
                      THEN [id |-> chatId, lastMessageAt |-> t, snippet |-> snip, ref |-> FALSE]
                      ELSE list[i]]
        Key(s) == DerefSession(sessions, s).lastMessageAt
    IN  SortDesc(mapped, Key)

Rendered == [isStreaming |-> isStreaming, currentChatId |-> currentChatId,
             newMessage |-> newMessage, editingMessage |-> editingMessage]

\* the test without the lock
SendRejected_IgnoresLock(draft, chatId, locked, editing) ==
    Trim(draft) = <<>> \/ chatId = NoChat \/ editing # NoMsg

\* handleSendMessage's first test
SendRejected(draft, chatId, locked, editing) ==
    Trim(draft) = <<>> \/ chatId = NoChat \/ locked \/ editing # NoMsg

\* a test that lets every select through
SelectRejected_Never(locked) == FALSE

\* handleSelectChat's test
SelectRejected(locked) == locked

\* an onStreamUpdate that treats every chunk as text
OnStreamUpdate_AnyChunk(prev, store, chunk, messageId, chatId, now) ==
    LET IsIt(m) == m.id = messageId /\ m.role = "agent"
        idx == FindIndex(prev, IsIt)
    IN  IF idx # 0
        THEN [i \in 1..Len(prev) |->
                IF i = idx
                THEN [DerefMsg(store, prev[i]) EXCEPT
                         !.content = @ \o chunk.content, !.timestamp = now, !.ref = FALSE]
                ELSE prev[i]]
        ELSE IF chatId # NoChat
        THEN Append(prev, [id |-> messageId, chatId |-> chatId, role |-> "agent",
                           content |-> chunk.content, timestamp |-> now,
                           status |-> "streaming", ref |-> FALSE])
        ELSE prev

\* onStreamUpdate of the view, applied to the message list
OnStreamUpdate(prev, store, chunk, messageId, chatId, now) ==
    LET IsIt(m) == m.id = messageId /\ m.role = "agent"
        idx == FindIndex(prev, IsIt)
    IN  IF chunk.type = "text_chunk"
        THEN IF idx # 0
             THEN [i \in 1..Len(prev) |->
                     IF i = idx
                     THEN [DerefMsg(store, prev[i]) EXCEPT
                              !.content = @ \o chunk.content, !.timestamp = now, !.ref = FALSE]
                     ELSE prev[i]]
             ELSE IF chatId # NoChat
             THEN Append(prev, [id |-> messageId, chatId |-> chatId, role |-> "agent",
                                content |-> chunk.content, timestamp |-> now,
                                status |-> "streaming", ref |-> FALSE])
             ELSE prev
        ELSE prev

\* an end that leaves the status as it is
OnStreamEndMessages_KeepsStatus(prev, store, finalContent, messageId, now) ==
    [i \in 1..Len(prev) |->
        IF prev[i].id = messageId /\ prev[i].role = "agent"
        THEN [DerefMsg(store, prev[i]) EXCEPT
                 !.content = finalContent, !.timestamp = now, !.ref = FALSE]
        ELSE prev[i]]

\* onStreamEnd of the view, applied to the message list
OnStreamEndMessages(prev, store, finalContent, messageId, now) ==
    [i \in 1..Len(prev) |->
        IF prev[i].id = messageId /\ prev[i].role = "agent"
        THEN [DerefMsg(store, prev[i]) EXCEPT
                 !.content = finalContent, !.status = "delivered", !.timestamp = now,
                 !.ref = FALSE]
        ELSE prev[i]]

\* onStreamError of the view, applied to the message list
OnStreamErrorMessages(prev, store, tempId) ==
    [i \in 1..Len(prev) |->
        IF prev[i].id = tempId
        THEN [DerefMsg(store, prev[i]) EXCEPT
                 !.status = "error", !.content = ErrorSendingNote(@), !.ref = FALSE]
        ELSE prev[i]]

\* a catch that leaves the content as it is
CatchMessages_NoNote(prev, store, tempId) ==
    [i \in 1..Len(prev) |->
        IF prev[i].id = tempId
        THEN [DerefMsg(store, prev[i]) EXCEPT !.status = "error", !.ref = FALSE]
        ELSE prev[i]]

\* the catch of handleSendMessage, applied to the message list
CatchMessages(prev, store, tempId) ==
    [i \in 1..Len(prev) |->
        IF prev[i].id = tempId
        THEN [DerefMsg(store, prev[i]) EXCEPT
                 !.status = "error", !.content = FailedToSendNote(@), !.ref = FALSE]
        ELSE prev[i]]

\* a placeholder that is shown as sent
OptimisticUserMessage_Sent(id, chatId, content, now) ==
    [id |-> id, chatId |-> chatId, role |-> "user", content |-> content,
     timestamp |-> now, status |-> "sent", ref |-> FALSE]

\* optimisticUserMessage
OptimisticUserMessage(id, chatId, content, now) ==
    [id |-> id, chatId |-> chatId, role |-> "user", content |-> content,
     timestamp |-> now, status |-> "pending", ref |-> FALSE]

\* a test that lets a resend through while the lock is held
ResendRejected_IgnoresLock(locked, chatId) == chatId = NoChat

\* handleResendMessage's test
ResendRejected(locked, chatId) == locked \/ chatId = NoChat

----------------------------------------------------------------------------
(* Initial state: the service module is loaded and the view is mounted; the  *)
(* mount effect has called getChatSessions and waits for it.                 *)

Init ==
    /\ mockSessions = SeedSessions
    /\ mockMessages = SeedMessages
    /\ streams = <<>>
    /\ clock = T0
    /\ nextId = SeedIds
    /\ chatSessions = <<>>
    /\ currentChatId = NoChat
    /\ messages = <<>>
    /\ newMessage = <<>>
    /\ editingMessage = NoMsg
    /\ isStreaming = FALSE
    /\ r = [isStreaming |-> FALSE, currentChatId |-> NoChat,
            newMessage |-> <<>>, editingMessage |-> NoMsg]
    /\ pending = <<[kind |-> "getChatSessions",
                    sessions |-> MapSeq(GetChatSessions(SeedSessions), RefSession)]>>
    /\ last = [op |-> "mount", lock |-> FALSE, ok |-> TRUE]
    /\ resends = 0
    /\ intents = 0
    /\ failures = [rejected |-> 0, unhandled |-> 0]

----------------------------------------------------------------------------
(* Time and rendering *)

\* the millisecond in which a handler reads the clock: a later one than the
\* previous reading
Times == {t \in {clock + 1} : t <= MaxClock}

\* the millisecond in which a timer fires: a later one (the interval is 500 ms)
TimerTimes == {t \in {clock + 1} : t <= MaxClock}

\* a render: the handlers now read the current state; the effect on
\* currentChatId calls getMessages when the active chat has changed
Render ==
    /\ r # Rendered
    /\ r' = Rendered
    /\ Len(pending) < MaxPending
    /\ pending' =
         IF currentChatId # r.currentChatId /\ currentChatId # NoChat
         THEN Append(pending,
                     [kind |-> "getMessages",
                      list |-> MapSeq(GetMessages(mockMessages, currentChatId), RefMsg)])
         ELSE pending
    /\ UNCHANGED <<serviceVars, viewVars, clock, last>>

\* fetchSessions after its await
FetchSessionsDone ==
    /\ pending # <<>>
    /\ Head(pending).kind = "getChatSessions"
    /\ LET Key(s) == DerefSession(mockSessions, s).lastMessageAt
           sessions == SortDesc(Head(pending).sessions, Key)
       IN  /\ chatSessions' = sessions
           /\ currentChatId' = IF Len(sessions) > 0 THEN sessions[1].id ELSE currentChatId
    /\ pending' = Tail(pending)
    /\ UNCHANGED <<serviceVars, clock, messages, newMessage, editingMessage,
                   isStreaming, r, last>>

\* fetchMessages after its await
FetchMessagesDone ==
    /\ pending # <<>>
    /\ Head(pending).kind = "getMessages"
    /\ messages' = Head(pending).list
    /\ pending' = Tail(pending)
    /\ UNCHANGED <<serviceVars, clock, chatSessions, currentChatId, newMessage,
                   editingMessage, isStreaming, r, last>>

----------------------------------------------------------------------------
(* Intents *)

\* onChange of the input: the user writes a draft into the empty input, or
\* rewrites the text of the message in edit mode
TypeDraft(d) ==
    /\ d # newMessage
    /\ newMessage = <<>> \/ editingMessage # NoMsg
    /\ newMessage' = d
    /\ UNCHANGED <<serviceVars, clock, chatSessions, currentChatId, messages,
                   editingMessage, isStreaming, r, pending, last>>

HandleSelectChat(sessionId) ==
    /\ last' = [op |-> "select", lock |-> r.isStreaming, ok |-> ~SelectRejected(r.isStreaming)]
    /\ IF SelectRejected(r.isStreaming)
       THEN UNCHANGED <<currentChatId, editingMessage>>
       ELSE /\ currentChatId' = sessionId
            /\ editingMessage' = NoMsg
    /\ UNCHANGED <<serviceVars, clock, chatSessions, messages, newMessage,
                   isStreaming, r, pending>>

\* handleSendMessage, a new message: up to the await of sendMessage
SendNew(now) ==
    /\ now \in Times
    /\ clock' = now
    /\ ~SendRejected(r.newMessage, r.currentChatId, r.isStreaming, r.editingMessage)
    /\ Len(streams) < MaxSends
    /\ Len(pending) < MaxPending
    /\ LET tempUserMessageId == TempId(nextId + 1)
           userId == nextId + 2
           agentMessageId == nextId + 3
           chatId == r.currentChatId
       IN  /\ isStreaming' = TRUE
           /\ messages' = Append(messages,
                  OptimisticUserMessage(tempUserMessageId, chatId, r.newMessage, now))
           /\ newMessage' = <<>>
           /\ mockMessages' = [mockMessages EXCEPT
                  ![chatId] = Append(@, UserMessage(userId, chatId, r.newMessage, now))]
           /\ mockSessions' = TouchSession(mockSessions, chatId, now,
                                          UserSnippet(r.newMessage))
           /\ streams' = Append(streams,
                  NewStream(chatId, userId, agentMessageId, tempUserMessageId,
                            HasSession(mockSessions, chatId)))
           /\ nextId' = nextId + 3
           /\ pending' = Append(pending,
                  [kind |-> "sendMessage", tempUserMessageId |-> tempUserMessageId,
                   userId |-> userId, chatId |-> chatId])
    /\ last' = [op |-> "send", lock |-> r.isStreaming, ok |-> TRUE]
    /\ UNCHANGED <<chatSessions, currentChatId, editingMessage, r, resends, failures>>

\* handleSendMessage, a new message, when sendMessage rejects before it has
\* stored anything: the await throws into the catch of the handler
SendNewFails(now) ==
    /\ now \in Times
    /\ clock' = now
    /\ ~SendRejected(r.newMessage, r.currentChatId, r.isStreaming, r.editingMessage)
    /\ failures.rejected < MaxFailures
    /\ Len(pending) < MaxPending
    /\ LET tempUserMessageId == TempId(nextId + 1)
       IN  /\ isStreaming' = TRUE
           /\ messages' = Append(messages,
                  OptimisticUserMessage(tempUserMessageId, r.currentChatId,
                                        r.newMessage, now))
           /\ newMessage' = <<>>
           /\ nextId' = nextId + 1
           /\ pending' = Append(pending,
                  [kind |-> "sendMessage rejected",
                   tempUserMessageId |-> tempUserMessageId])
    /\ failures' = [failures EXCEPT !.rejected = @ + 1]
    /\ last' = [op |-> "send", lock |-> r.isStreaming, ok |-> TRUE]
    /\ UNCHANGED <<mockSessions, mockMessages, streams, resends, chatSessions,
                   currentChatId, editingMessage, r>>

\* handleSendMessage while a message is in edit mode: up to the await of editMessage
SendEdit(now) ==
    /\ now \in Times
    /\ clock' = now
    /\ SendRejected(r.newMessage, r.currentChatId, r.isStreaming, r.editingMessage)
    /\ r.editingMessage # NoMsg /\ r.currentChatId # NoChat
    /\ Len(pending) < MaxPending
    /\ LET res == EditMessage(mockMessages, r.editingMessage, r.newMessage, now)
       IN  /\ mockMessages' = res.store
           /\ pending' = Append(pending, [kind |-> "editMessage", updated |-> res.result])
    /\ last' = [op |-> "save", lock |-> r.isStreaming, ok |-> TRUE]
    /\ UNCHANGED <<mockSessions, streams, nextId, resends, failures, viewVars, r>>

\* handleSendMessage while a message is in edit mode, when editMessage
\* rejects: the await throws outside the try of the handler
SendEditFails ==
    /\ SendRejected(r.newMessage, r.currentChatId, r.isStreaming, r.editingMessage)
    /\ r.editingMessage # NoMsg /\ r.currentChatId # NoChat
    /\ failures.rejected < MaxFailures
    /\ Len(pending) < MaxPending
    /\ pending' = Append(pending, [kind |-> "rejected", by |-> "editMessage"])
    /\ failures' = [failures EXCEPT !.rejected = @ + 1]
    /\ last' = [op |-> "save", lock |-> r.isStreaming, ok |-> TRUE]
    /\ UNCHANGED <<mockSessions, mockMessages, streams, nextId, resends, clock,
                   viewVars, r>>

\* handleSendMessage that fails its test outside edit mode
SendIgnored ==
    /\ SendRejected(r.newMessage, r.currentChatId, r.isStreaming, r.editingMessage)
    /\ ~(r.editingMessage # NoMsg /\ r.currentChatId # NoChat)
    /\ last' = [op |-> "send", lock |-> r.isStreaming, ok |-> FALSE]
    /\ UNCHANGED <<serviceVars, clock, viewVars, r, pending>>

HandleSendMessage ==
    \/ \E now \in Times : SendNew(now)
    \/ \E now \in Times : SendNewFails(now)
    \/ \E now \in Times : SendEdit(now)
    \/ SendEditFails
    \/ SendIgnored

\* a confirmation that moves the message to the end of the list
ConfirmUserMessage_MovesToEnd(prev, tempId, confirmedUserMessage) ==
    LET kept == [i \in 1..Len(prev) |-> IF prev[i].id = tempId THEN <<>> ELSE <<prev[i]>>]
    IN  IF \E i \in 1..Len(prev) : prev[i].id = tempId
        THEN Append(Concat(kept),
                    OwnMsg([confirmedUserMessage EXCEPT !.status = "delivered"]))
        ELSE prev

\* prev.map(msg => msg.id === tempUserMessageId
\*                 ? {...confirmedUserMessage, status: 'delivered'} : msg)
ConfirmUserMessage(prev, tempId, confirmedUserMessage) ==
    [i \in 1..Len(prev) |->
        IF prev[i].id = tempId
        THEN OwnMsg([confirmedUserMessage EXCEPT !.status = "delivered"])
        ELSE prev[i]]

\* handleSendMessage after the await of sendMessage
SendMessageDone ==
    /\ pending # <<>>
    /\ Head(pending).kind = "sendMessage"
    /\ LET c == Head(pending)
           confirmedUserMessage == StoredMsg(mockMessages, c.userId)
       IN  /\ messages' = ConfirmUserMessage(messages, c.tempUserMessageId,
                                              confirmedUserMessage)
           /\ chatSessions' = ViewTouch(chatSessions, mockSessions, c.chatId,
                                        confirmedUserMessage.timestamp,
                                        UserSnippet(confirmedUserMessage.content))
    /\ pending' = Tail(pending)
    /\ UNCHANGED <<serviceVars, clock, currentChatId, newMessage, editingMessage,
                   isStreaming, r, last>>

\* the catch of handleSendMessage, after sendMessage has rejected
SendMessageFailed ==
    /\ pending # <<>>
    /\ Head(pending).kind = "sendMessage rejected"
    /\ messages' = CatchMessages(messages, mockMessages, Head(pending).tempUserMessageId)
    /\ isStreaming' = FALSE
    /\ pending' = Tail(pending)
    /\ UNCHANGED <<serviceVars, clock, chatSessions, currentChatId, newMessage,
                   editingMessage, r, last>>

\* a rejection of editMessage or resendMessage: the handler has no catch
\* around the await, its promise rejects and nothing after the await runs
UnhandledRejection ==
    /\ pending # <<>>
    /\ Head(pending).kind = "rejected"
    /\ failures' = [failures EXCEPT !.unhandled = @ + 1]
    /\ pending' = Tail(pending)
    /\ UNCHANGED <<mockSessions, mockMessages, streams, nextId, resends, clock,
                   viewVars, r, last>>

\* a replacement that shows the edited message as not yet acknowledged
ReplaceEdited_AsPending(prev, updatedMessage) ==
    [i \in 1..Len(prev) |->
        IF prev[i].id = updatedMessage.id
        THEN OwnMsg([updatedMessage EXCEPT !.status = "pending"]) ELSE prev[i]]

\* prev.map(msg => msg.id === updatedMessage.id ? updatedMessage : msg)
ReplaceEdited(prev, updatedMessage) ==
    [i \in 1..Len(prev) |->
        IF prev[i].id = updatedMessage.id THEN OwnMsg(updatedMessage) ELSE prev[i]]

\* handleSendMessage after the await of editMessage
EditMessageDone ==
    /\ pending # <<>>
    /\ Head(pending).kind = "editMessage"
    /\ LET updated == Head(pending).updated
       IN  messages' = IF updated # <<>>
                       THEN ReplaceEdited(messages, updated[1])
                       ELSE messages
    /\ newMessage' = <<>>
    /\ editingMessage' = NoMsg
    /\ pending' = Tail(pending)
    /\ UNCHANGED <<serviceVars, clock, chatSessions, currentChatId, isStreaming, r, last>>

HandleEditMessage(message) ==
    /\ last' = [op |-> "edit", lock |-> r.isStreaming,
                ok |-> ~r.isStreaming /\ message.role = "user"]
    /\ IF ~r.isStreaming /\ message.role = "user"
       THEN /\ editingMessage' = message.id
            /\ newMessage' = message.content
       ELSE UNCHANGED <<editingMessage, newMessage>>
    /\ UNCHANGED <<serviceVars, clock, chatSessions, currentChatId, messages,
                   isStreaming, r, pending>>

\* onClick of the Cancel button, shown in edit mode
CancelEdit ==
    /\ r.editingMessage # NoMsg
    /\ editingMessage' = NoMsg
    /\ newMessage' = <<>>
    /\ last' = [op |-> "cancel", lock |-> r.isStreaming, ok |-> TRUE]
    /\ UNCHANGED <<serviceVars, clock, chatSessions, currentChatId, messages,
                   isStreaming, r, pending>>

\* an identifier that no message has
UnknownId == 99

\* handleResendMessage up to the await of resendMessage
HandleResendMessage(messageId, now) ==
    /\ now \in Times
    /\ last' = [op |-> "resend", lock |-> r.isStreaming,
                ok |-> ~ResendRejected(r.isStreaming, r.currentChatId)]
    /\ IF ResendRejected(r.isStreaming, r.currentChatId)
       THEN UNCHANGED <<serviceVars, viewVars, pending>>
       ELSE LET target == ResendTarget(mockMessages, messageId)
            IN  /\ isStreaming' = TRUE
                /\ Len(pending) < MaxPending
                /\ IF target # <<>>
                   THEN LET c == target[1]
                            agentResponse == AgentResponse(nextId + 1, c,
                                                 mockMessages[c][target[2]], now)
                        IN  /\ resends < MaxResends
                            /\ mockMessages' = [mockMessages EXCEPT
                                                   ![c] = Append(@, agentResponse)]
                            /\ mockSessions' = TouchSession(mockSessions, c, now,
                                   Substring(agentResponse.content, ResendSnippetLen))
                            /\ nextId' = nextId + 1
                            /\ resends' = resends + 1
                            /\ pending' = Append(pending,
                                   [kind |-> "resendMessage", response |-> <<agentResponse>>,
                                    chatId |-> r.currentChatId])
                   ELSE /\ UNCHANGED <<mockMessages, mockSessions, nextId, resends>>
                        /\ pending' = Append(pending,
                               [kind |-> "resendMessage", response |-> <<>>,
                                chatId |-> r.currentChatId])
                /\ UNCHANGED <<streams, failures, chatSessions, currentChatId, messages,
                               newMessage, editingMessage>>
    /\ clock' = (IF ResendRejected(r.isStreaming, r.currentChatId) THEN clock ELSE now)
    /\ UNCHANGED r

\* handleResendMessage when resendMessage rejects
ResendFails(messageId) ==
    /\ ~ResendRejected(r.isStreaming, r.currentChatId)
    /\ failures.rejected < MaxFailures
    /\ Len(pending) < MaxPending
    /\ isStreaming' = TRUE
    /\ pending' = Append(pending, [kind |-> "rejected", by |-> "resendMessage"])
    /\ failures' = [failures EXCEPT !.rejected = @ + 1]
    /\ last' = [op |-> "resend", lock |-> r.isStreaming, ok |-> TRUE]
    /\ UNCHANGED <<mockSessions, mockMessages, streams, nextId, resends, clock,
                   chatSessions, currentChatId, messages, newMessage, editingMessage, r>>

\* handleResendMessage after the await of resendMessage
ResendMessageDone ==
    /\ pending # <<>>
    /\ Head(pending).kind = "resendMessage"
    /\ LET c == Head(pending)
       IN  IF c.response # <<>>
           THEN /\ messages' = Append(messages, RefMsg(c.response[1]))
                /\ chatSessions' = ViewTouch(chatSessions, mockSessions, c.chatId,
                       c.response[1].timestamp,
                       Substring(c.response[1].content, ResendSnippetLen))
           ELSE UNCHANGED <<messages, chatSessions>>
    /\ isStreaming' = FALSE
    /\ pending' = Tail(pending)
    /\ UNCHANGED <<serviceVars, clock, currentChatId, newMessage, editingMessage, r, last>>

----------------------------------------------------------------------------
(* The reply stream: the setInterval callback of sendMessage *)

\* a timer fires when nothing is left to run: no continuation is waiting and
\* the view is rendered
TimerMayFire(st, now) ==
    ~st.cleared /\ pending = <<>> /\ r = Rendered /\ now \in TimerTimes

\* the callback delivers the next chunk
DeliverChunk(i, chunk, now) ==
    LET st == streams[i]
        updated == OnStreamUpdate(messages, mockMessages, chunk, st.agentMessageId,
                                  st.chatId, now)
        content == Accumulate(st.currentAgentContent, chunk)
        stepped == [st EXCEPT !.chunkIndex = @ + 1, !.currentAgentContent = content,
                              !.streamChunks = Append(@, chunk)]
    IN  /\ st.chunkIndex = Len(st.streamChunks)
        /\ chunk \in NextChunks(st.streamChunks)
        /\ IF chunk.type = "end_of_stream"
           THEN LET stored == [mockMessages EXCEPT
                                  ![st.chatId] = Append(@, FinalAgentMessage(st, content, now))]
                    sessions == IF st.session
                                THEN TouchSession(mockSessions, st.chatId, now,
                                                  AgentSnippet(content))
                                ELSE mockSessions
                IN  /\ mockMessages' = stored
                    /\ mockSessions' = sessions
                    /\ streams' = [streams EXCEPT ![i] =
                           [stepped EXCEPT !.cleared = TRUE,
                                           !.ends = Append(@, <<content, st.agentMessageId>>)]]
                    \* onStreamEnd
                    /\ messages' = OnStreamEndMessages(updated, stored, content,
                                                       st.agentMessageId, now)
                    /\ chatSessions' = ViewTouch(chatSessions, sessions, st.chatId, now,
                                                 AgentSnippet(content))
                    /\ isStreaming' = FALSE
           ELSE /\ messages' = updated
                /\ streams' = [streams EXCEPT ![i] = stepped]
                /\ UNCHANGED <<mockMessages, mockSessions, chatSessions, isStreaming>>

\* the callback finds no chunk left
IntervalFallback(i, now) ==
    /\ NextChunks(streams[i].streamChunks) = {}
    /\ streams' = [streams EXCEPT ![i].cleared = TRUE]
    /\ UNCHANGED <<mockMessages, mockSessions, messages, chatSessions, isStreaming>>

StreamTick(i, now) ==
    /\ TimerMayFire(streams[i], now)
    /\ clock' = now
    /\ (\E chunk \in BodyChunks \cup TerminalChunks : DeliverChunk(i, chunk, now))
       \/ IntervalFallback(i, now)
    /\ UNCHANGED <<nextId, resends, failures, currentChatId, newMessage, editingMessage,
                   r, pending, last>>

\* the callback throws before it delivers its chunk: the catch clears the
\* interval and calls onStreamError
StreamThrow(i, now) ==
    /\ TimerMayFire(streams[i], now)
    /\ clock' = now
    /\ NextChunks(streams[i].streamChunks) # {}
    /\ streams' = [streams EXCEPT ![i].cleared = TRUE, ![i].errors = @ + 1]
    /\ messages' = OnStreamErrorMessages(messages, mockMessages,
                                         streams[i].tempUserMessageId)
    /\ isStreaming' = FALSE
    /\ UNCHANGED <<mockMessages, mockSessions, nextId, resends, failures, chatSessions,
                   currentChatId, newMessage, editingMessage, r, pending, last>>

----------------------------------------------------------------------------
(* Specification *)

\* the messages that show a resend button, and an identifier of no message
ResendIds == {messages[i].id : i \in {j \in 1..Len(messages) : messages[j].role = "user"}}
             \cup {UnknownId}

\* a step the user takes
Intent(A) == intents < MaxIntents /\ intents' = intents + 1 /\ A

\* a step the program takes by itself
Internal(A) == A /\ UNCHANGED intents

Next ==
    \/ Internal(Render)
    \/ Internal(FetchSessionsDone)
    \/ Internal(FetchMessagesDone)
    \/ Internal(\E d \in Drafts : TypeDraft(d))
    \/ Intent(\E c \in ChatIds : HandleSelectChat(c))
    \/ Intent(HandleSendMessage)
    \/ Internal(SendMessageDone)
    \/ Internal(EditMessageDone)
    \/ Intent(\E i \in 1..Len(messages) : HandleEditMessage(ShownMessages[i]))
    \/ Intent(CancelEdit)
    \/ Intent(\E id \in ResendIds, now \in Times : HandleResendMessage(id, now))
    \/ Internal(ResendMessageDone)
    \/ Intent(\E id \in ResendIds : ResendFails(id))
    \/ Internal(SendMessageFailed)
    \/ Internal(UnhandledRejection)
    \/ Internal(\E i \in 1..Len(streams), now \in TimerTimes : StreamTick(i, now))
    \/ Internal(\E i \in 1..Len(streams), now \in TimerTimes : StreamThrow(i, now))

Spec == Init /\ [][Next]_vars

----------------------------------------------------------------------------
(* The service on its own, with the reply written in sendMessage: the       *)
(* callbacks only record their calls, as the callers of the service's tests *)
(* do.  The record of a call holds the whole list of chunks from the start; *)
(* chunkIndex says how many of them onStreamUpdate has been given.          *)

MockMaxClock == 14   \* the clock stops here when the service runs on its own

MockTimes == {t \in {clock + 1} : t <= MockMaxClock}

\* the contents sent
MockContents == {<<"h">>, <<"h", "i">>}

\* const streamChunks = [...]: five text chunks and end_of_stream
MockStreamChunks(content) ==
    <<TextChunk(<<"O">>),
      TextChunk(<<"Y">>),
      TextChunk(Substring(content, 20) \o Dots \o <<"\"", " ">>),
      TextChunk(<<"i">>),
      TextChunk(<<"P">>),
      EndChunk>>

MockInit ==
    /\ mockSessions = SeedSessions
    /\ mockMessages = SeedMessages
    /\ streams = <<>>
    /\ clock = T0
    /\ nextId = SeedIds
    /\ chatSessions = <<>>
    /\ currentChatId = NoChat
    /\ messages = <<>>
    /\ newMessage = <<>>
    /\ editingMessage = NoMsg
    /\ isStreaming = FALSE
    /\ r = [isStreaming |-> FALSE, currentChatId |-> NoChat,
            newMessage |-> <<>>, editingMessage |-> NoMsg]
    /\ pending = <<>>
    /\ last = [op |-> "load", lock |-> FALSE, ok |-> TRUE]
    /\ resends = 0
    /\ intents = 0
    /\ failures = [rejected |-> 0, unhandled |-> 0]

\* sendMessage(chatId, content, onStreamUpdate, onStreamEnd, onStreamError)
MockSendMessage(chatId, content, now) ==
    /\ now \in MockTimes
    /\ clock' = now
    /\ Len(streams) < MaxSends
    /\ LET userId == nextId + 1
           agentMessageId == nextId + 2
           stream == NewStream(chatId, userId, agentMessageId, NoMsg,
                               HasSession(mockSessions, chatId))
       IN  /\ mockMessages' = [mockMessages EXCEPT
                  ![chatId] = Append(@, UserMessage(userId, chatId, content, now))]
           /\ mockSessions' = TouchSession(mockSessions, chatId, now, UserSnippet(content))
           /\ streams' = Append(streams,
                  [stream EXCEPT !.streamChunks = MockStreamChunks(content)])
           /\ nextId' = nextId + 2
    /\ last' = [op |-> "sendMessage", lock |-> FALSE, ok |-> TRUE]
    /\ UNCHANGED <<viewVars, r, pending, resends, intents, failures>>

\* the setInterval callback of the i-th call
MockTick(i, now) ==
    LET st == streams[i]
    IN  /\ ~st.cleared
        /\ now \in MockTimes
        /\ clock' = now
        /\ IF st.chunkIndex < Len(st.streamChunks)
           THEN LET chunk == st.streamChunks[st.chunkIndex + 1]
                    content == Accumulate(st.currentAgentContent, chunk)
                    stepped == [st EXCEPT !.chunkIndex = @ + 1,
                                          !.currentAgentContent = content]
                IN  IF chunk.type = "end_of_stream"
                    THEN /\ mockMessages' = [mockMessages EXCEPT
                                ![st.chatId] = Append(@, FinalAgentMessage(st, content, now))]
                         /\ mockSessions' = IF st.session
                                            THEN TouchSession(mockSessions, st.chatId, now,
                                                              AgentSnippet(content))
                                            ELSE mockSessions
                         /\ streams' = [streams EXCEPT ![i] =
                                [stepped EXCEPT !.cleared = TRUE,
                                                !.ends = Append(@, <<content, st.agentMessageId>>)]]
                    ELSE /\ streams' = [streams EXCEPT ![i] = stepped]
                         /\ UNCHANGED <<mockMessages, mockSessions>>
           ELSE /\ streams' = [streams EXCEPT ![i].cleared = TRUE]
                /\ UNCHANGED <<mockMessages, mockSessions>>
        /\ last' = [op |-> "interval", lock |-> FALSE, ok |-> TRUE]
        /\ UNCHANGED <<nextId, viewVars, r, pending, resends, intents, failures>>

\* a catch that calls onStreamError and leaves the interval running
MockThrow_KeepsInterval(i, now) ==
    LET st == streams[i]
    IN  /\ ~st.cleared
        /\ now \in MockTimes
        /\ clock' = now
        /\ st.chunkIndex < Len(st.streamChunks)
        /\ streams' = [streams EXCEPT ![i].errors = @ + 1]
        /\ last' = [op |-> "interval", lock |-> FALSE, ok |-> FALSE]
        /\ UNCHANGED <<mockMessages, mockSessions, nextId, viewVars, r, pending,
                       resends, intents, failures>>

\* onStreamUpdate throws: the catch clears the interval and calls onStreamError
MockThrow(i, now) ==
    LET st == streams[i]
    IN  /\ ~st.cleared
        /\ now \in MockTimes
        /\ clock' = now
        /\ st.chunkIndex < Len(st.streamChunks)
        /\ streams' = [streams EXCEPT ![i].cleared = TRUE, ![i].errors = @ + 1]
        /\ last' = [op |-> "interval", lock |-> FALSE, ok |-> FALSE]
        /\ UNCHANGED <<mockMessages, mockSessions, nextId, viewVars, r, pending,
                       resends, intents, failures>>

MockNext ==
    \/ \E c \in ChatIds, content \in MockContents, now \in MockTimes :
          MockSendMessage(c, content, now)
    \/ \E i \in 1..Len(streams), now \in MockTimes : MockTick(i, now)
    \/ \E i \in 1..Len(streams), now \in MockTimes : MockThrow(i, now)

MockSpec == MockInit /\ [][MockNext]_vars

----------------------------------------------------------------------------
(* The view when the end of a reply is delivered to it a second time: the   *)
(* callbacks of a finished reply are called once more with the arguments of *)
(* the first time.  The service has cleared its interval and takes no part. *)

\* onStreamUpdate(end_of_stream chunk) and onStreamEnd(content, id), again
EndAgain(i, now) ==
    LET st == streams[i]
        updated == OnStreamUpdate(messages, mockMessages, EndChunk, st.agentMessageId,
                                  st.chatId, now)
    IN  /\ st.ends # <<>> /\ Len(st.ends) < 2
        /\ now \in TimerTimes
        /\ clock' = now
        /\ messages' = OnStreamEndMessages(updated, mockMessages, st.ends[1][1],
                                           st.agentMessageId, now)
        /\ chatSessions' = ViewTouch(chatSessions, mockSessions, st.chatId, now,
                                     AgentSnippet(st.ends[1][1]))
        /\ isStreaming' = FALSE
        /\ streams' = [streams EXCEPT ![i].ends = Append(@, st.ends[1])]
        /\ last' = [op |-> "end again", lock |-> isStreaming, ok |-> TRUE]
        /\ UNCHANGED <<mockMessages, mockSessions, nextId, resends, failures,
                       currentChatId, newMessage, editingMessage, r, pending>>

EndAgainNext ==
    \/ Next
    \/ Internal(\E i \in 1..Len(streams), now \in TimerTimes : EndAgain(i, now))

EndAgainSpec == Init /\ [][EndAgainNext]_vars

----------------------------------------------------------------------------
(* A reply whose list holds a text chunk after its error_chunk: the         *)
(* interval stops at end_of_stream only, so it is still running after an    *)
(* error_chunk and hands the next chunk to onStreamUpdate.                  *)

\* the callback delivers a text chunk that follows an error_chunk
LateChunk(i, chunk, now) ==
    LET st == streams[i]
    IN  /\ TimerMayFire(st, now)
        /\ clock' = now
        /\ chunk.type = "text_chunk"
        /\ st.chunkIndex = Len(st.streamChunks)
        /\ st.streamChunks # <<>>
        /\ st.streamChunks[Len(st.streamChunks)] = ErrorChunk
        /\ messages' = OnStreamUpdate(messages, mockMessages, chunk, st.agentMessageId,
                                      st.chatId, now)
        /\ streams' = [streams EXCEPT ![i] =
               [st EXCEPT !.chunkIndex = @ + 1,
                          !.currentAgentContent = Accumulate(@, chunk),
                          !.streamChunks = Append(@, chunk)]]
        /\ last' = [op |-> "late chunk", lock |-> isStreaming, ok |-> TRUE]
        /\ UNCHANGED <<mockMessages, mockSessions, nextId, resends, failures,
                       chatSessions, currentChatId, newMessage, editingMessage,
                       isStreaming, r, pending>>

LateChunkNext ==
    \/ Next
    \/ Internal(\E i \in 1..Len(streams), chunk \in BodyChunks, now \in TimerTimes :
                   LateChunk(i, chunk, now))

LateChunkSpec == Init /\ [][LateChunkNext]_vars

----------------------------------------------------------------------------
(* The service on its own with a caller that reads: getMessages is called   *)
(* between the sends and the interval callbacks, with the id of a session   *)
(* or with an id that no session has; the caller keeps the array it got in  *)
(* `messages`.                                                               *)

\* a chat id under which nothing was ever stored
InvalidChatId == "invalid-chat-id"

\* await getMessages(chatId)
ReadMessages(chatId) ==
    /\ messages' = MapSeq(GetMessages(mockMessages, chatId), RefMsg)
    /\ last' = [op |-> "getMessages", lock |-> FALSE, ok |-> chatId \in ChatIds]
    /\ UNCHANGED <<serviceVars, clock, chatSessions, currentChatId, newMessage,
                   editingMessage, isStreaming, r, pending, intents>>

ReadNext ==
    \/ MockNext
    \/ \E chatId \in ChatIds \cup {InvalidChatId} : ReadMessages(chatId)

ReadSpec == MockInit /\ [][ReadNext]_vars

----------------------------------------------------------------------------
(* The service on its own with an id source that may repeat itself: nanoid  *)
(* is replaced in the tests by Math.random().toString(36).substring(7),     *)
(* whose strings are short; here a call of nanoid() in sendMessage may      *)
(* return an id that a stored message already has.                          *)

\* the identifiers of the stored messages
StoredIds(store) == {m.id : m \in AllStored(store)}

\* sendMessage when nanoid() returns `userId`, an id already in the store,
\* for the user message
SendWithId(chatId, content, userId, now) ==
    /\ now \in MockTimes
    /\ clock' = now
    /\ Len(streams) < MaxSends
    /\ userId \in StoredIds(mockMessages)
    /\ LET agentMessageId == nextId + 1
           stream == NewStream(chatId, userId, agentMessageId, NoMsg,
                               HasSession(mockSessions, chatId))
       IN  /\ mockMessages' = [mockMessages EXCEPT
                  ![chatId] = Append(@, UserMessage(userId, chatId, content, now))]
           /\ mockSessions' = TouchSession(mockSessions, chatId, now, UserSnippet(content))
           /\ streams' = Append(streams,
                  [stream EXCEPT !.streamChunks = MockStreamChunks(content)])
           /\ nextId' = nextId + 1
    /\ last' = [op |-> "sendMessage", lock |-> FALSE, ok |-> FALSE]
    /\ UNCHANGED <<viewVars, r, pending, resends, intents, failures>>

RepeatNext ==
    \/ MockNext
    \/ \E c \in ChatIds, content \in MockContents, id \in StoredIds(mockMessages),
          now \in MockTimes : SendWithId(c, content, id, now)

RepeatSpec == MockInit /\ [][RepeatNext]_vars

----------------------------------------------------------------------------
(* Properties *)

\* the text chunks among the chunks a stream has delivered, in arrival order
RECURSIVE TextFragments(_)
TextFragments(chunks) ==
    IF chunks = <<>> THEN <<>>
    ELSE IF Head(chunks).type = "text_chunk"
         THEN <<Head(chunks).content>> \o TextFragments(Tail(chunks))
         ELSE TextFragments(Tail(chunks))

Delivered(st) == SubSeq(st.streamChunks, 1, st.chunkIndex)

ShownWithId(id) == {m \in Range(ShownMessages) : m.id = id}

IsSortedDesc(list) ==
    \A i, j \in 1..Len(list) : i < j => list[i].lastMessageAt >= list[j].lastMessageAt

\* position of the session with this id, 0 when absent
PositionOf(list, id) ==
    IF \E i \in 1..Len(list) : list[i].id = id
    THEN CHOOSE i \in 1..Len(list) : list[i].id = id
    ELSE 0

\* sessions that tie in the list `after` stand in the order they had in `before`
TiesKeepOrder(before, after) ==
    \A i, j \in 1..Len(after) :
        (/\ i < j
         /\ after[i].lastMessageAt = after[j].lastMessageAt
         /\ PositionOf(before, after[i].id) # 0
         /\ PositionOf(before, after[j].id) # 0)
        => PositionOf(before, after[i].id) < PositionOf(before, after[j].id)

----------------------------------------------------------------------------
(* C1: while the handler sees the lock held (isStreaming), handleSendMessage *)
(* with a non-empty draft and no message in edit mode changes neither the   *)
(* message list, nor the store, nor the lock, and opens no reply stream.    *)
C1_LockedSendChangesNothing ==
    [][(/\ HandleSendMessage
        /\ r.isStreaming
        /\ Trim(r.newMessage) # <<>>
        /\ r.editingMessage = NoMsg)
       => UNCHANGED <<messages, mockMessages, mockSessions, isStreaming, streams>>]_vars

C1_Witness ==
    /\ last = [op |-> "send", lock |-> TRUE, ok |-> FALSE]
    /\ r.isStreaming /\ Trim(r.newMessage) # <<>> /\ r.editingMessage = NoMsg
    /\ r.currentChatId # NoChat

(* C2: a second send issued before the first send's end chunk has arrived   *)
(* opens no second reply: every reply stream opened earlier has finished    *)
(* when a stream is opened, so the session gains one user message and one   *)
(* agent message and the chunks of two replies do not interleave.           *)
C2_OneReplyAtATime ==
    \A i, j \in 1..Len(streams) : i < j => streams[i].cleared

(* C3: while the handler sees the lock held, handleSelectChat never changes *)
(* the active session, whatever session is selected.                        *)
C3_LockedSelectKeepsSession ==
    [][\A c \in ChatIds :
          (HandleSelectChat(c) /\ r.isStreaming) => UNCHANGED currentChatId]_vars

C3_Witness ==
    /\ last = [op |-> "select", lock |-> TRUE, ok |-> FALSE]
    /\ \E i \in 1..Len(streams) : ~streams[i].cleared

C5_ContentOnlyGrows ==
    [][\A i \in 1..Len(messages), j \in 1..Len(messages') :
          (messages[i].id = messages'[j].id /\ messages[i].role = "agent")
          => IsPrefix(DerefMsg(mockMessages, messages[i]).content,
                      DerefMsg(mockMessages', messages'[j]).content)]_vars

(* C6: after any touches the session list the service returns and the       *)
(* session list of the view, once no continuation is waiting, are sorted by *)
(* lastMessageAt, latest first, and sessions that tie keep the relative     *)
(* order they had before (for the list first fetched: the service's order). *)
C6_SessionsSortedStable ==
    /\ [](IsSortedDesc(GetChatSessions(mockSessions)))
    /\ [](pending = <<>> => IsSortedDesc(ShownSessions))
    /\ [][/\ TiesKeepOrder(mockSessions, mockSessions')
          /\ TiesKeepOrder(IF chatSessions = <<>> THEN mockSessions ELSE ShownSessions,
                           [i \in 1..Len(chatSessions') |->
                               DerefSession(mockSessions', chatSessions'[i])])]_vars

C6_Witness ==
    /\ Len(ShownSessions) = 2 /\ pending = <<>>
    /\ ShownSessions[1].id = "s2" /\ mockSessions[1].id = "s2"
    /\ ShownSessions[1].lastMessageAt > ShownSessions[2].lastMessageAt
    /\ \E c \in ChatIds : \E i \in 1..Len(mockMessages[c]) : mockMessages[c][i].id > SeedIds

(* C7: every send that acquires the lock releases it: once the interval of  *)
(* every reply has stopped (after an end chunk, after an error chunk or     *)
(* after a failure of the channel) and no continuation is waiting, the lock *)
(* is free.                                                                 *)
C7_LockReleasedWhenStreamsStop ==
    (pending = <<>> /\ \A i \in 1..Len(streams) : streams[i].cleared) => ~isStreaming

(* C8: once the end chunk of a reply is processed, the agent message with   *)
(* that id is delivered with the final accumulated content, in the store    *)
(* and in the message list, and completion was signalled once with that     *)
(* content and that id.                                                     *)
C8_EndChunkDelivers ==
    \A i \in 1..Len(streams) :
        LET st == streams[i]
        IN  st.ends # <<>> =>
                /\ st.ends = <<<<st.currentAgentContent, st.agentMessageId>>>>
                /\ IsStored(mockMessages, st.agentMessageId)
                /\ StoredMsg(mockMessages, st.agentMessageId).status = "delivered"
                /\ StoredMsg(mockMessages, st.agentMessageId).content = st.currentAgentContent
                /\ \A m \in ShownWithId(st.agentMessageId) :
                      m.role = "agent" /\ m.status = "delivered"
                      /\ m.content = st.currentAgentContent

C8_Witness ==
    \E i \in 1..Len(streams) :
        /\ streams[i].ends = <<<<<<"a">>, streams[i].agentMessageId>>>>
        /\ \E m \in ShownWithId(streams[i].agentMessageId) :
              m.status = "delivered" /\ m.content = <<"a">>

(* C9: once an error chunk has arrived for a reply, the agent message with  *)
(* that id stands in the message list with status error.                    *)
C9_ErrorChunkMarksMessage ==
    \A i \in 1..Len(streams) :
        ErrorChunk \in Range(Delivered(streams[i]))
        => \A m \in ShownWithId(streams[i].agentMessageId) : m.status = "error"

(* C10: once the stream error callback has fired for a send whose user      *)
(* message was confirmed, a shown message of that exchange has status error *)
(* and carries the failure note.                                            *)
C10_StreamErrorMarksMessage ==
    \A i \in 1..Len(streams) :
        LET st == streams[i]
            exchange == {m \in Range(ShownMessages) :
                            m.id \in {st.tempUserMessageId, st.userMessageId,
                                      st.agentMessageId}}
        IN  (st.errors > 0 /\ exchange # {})
            => \E m \in exchange :
                  m.status = "error" /\ IsSuffix(ErrorSendingNote(<<>>), m.content)

(* C11: when sendMessage rejects right after the optimistic placeholder was *)
(* created, the send has added one message to the list, the placeholder,    *)
(* and the catch turns it, while it is in the list, into status error with  *)
(* its content followed by the failure note; no other message changes, the  *)
(* lock is released, and neither the store nor the session lists are        *)
(* touched.                                                                 *)
C11_SendFailureMarksPlaceholder ==
    [][/\ (\E now \in Times : SendNewFails(now)) =>
             /\ Len(messages') = Len(messages) + 1
             /\ SubSeq(messages', 1, Len(messages)) = messages
             /\ messages'[Len(messages')].status = "pending"
             /\ messages'[Len(messages')].content = r.newMessage
             /\ UNCHANGED <<mockMessages, mockSessions, chatSessions>>
       /\ SendMessageFailed =>
             /\ Len(messages') = Len(messages)
             /\ \A i \in 1..Len(messages) :
                   IF messages[i].id = Head(pending).tempUserMessageId
                   THEN /\ messages'[i].status = "error"
                        /\ messages'[i].content = messages[i].content \o <<"\n", "F">>
                        /\ messages'[i].id = messages[i].id
                   ELSE messages'[i] = messages[i]
             /\ isStreaming' = FALSE
             /\ UNCHANGED <<mockMessages, mockSessions, chatSessions>>]_vars

C11_Witness ==
    /\ failures.rejected = 1 /\ pending = <<>> /\ ~isStreaming
    /\ mockMessages = SeedMessages /\ mockSessions = SeedSessions
    /\ \E i \in 1..Len(messages) :
          /\ messages[i].id < 0
          /\ messages[i].status = "error"
          /\ messages[i].content = <<"h", "\n", "F">>

(* C12: handleSendMessage with an empty or whitespace-only draft outside    *)
(* edit mode, or with no active session, changes no state: the message      *)
(* list, the store, the session lists, the lock, the draft, the edit mode   *)
(* and the waiting continuations are as before.                             *)
C12_InvalidSendChangesNothing ==
    [][(/\ HandleSendMessage
        /\ \/ r.currentChatId = NoChat
           \/ /\ r.editingMessage = NoMsg
              /\ \A k \in 1..Len(r.newMessage) : r.newMessage[k] = " ")
       => UNCHANGED <<serviceVars, viewVars, pending>>]_vars

C12_Witness ==
    /\ last = [op |-> "send", lock |-> FALSE, ok |-> FALSE]
    /\ r.newMessage = <<" ">> /\ r.editingMessage = NoMsg /\ r.currentChatId # NoChat

(* C13: while the handler sees the lock held, handleSendMessage with a      *)
(* message in edit mode is dropped: the store, the message list, the edit   *)
(* mode and the draft stay as they were, and no continuation is queued.     *)
C13_LockedEditSaveDropped ==
    [][(HandleSendMessage /\ r.isStreaming /\ r.editingMessage # NoMsg)
       => UNCHANGED <<mockMessages, messages, editingMessage, newMessage, pending>>]_vars

(* C14: only user-authored messages can be edited: editMessage on the id of *)
(* a stored message of another role returns null and leaves the store as it *)
(* is, and handleEditMessage on a shown message of another role changes     *)
(* neither the edit mode nor the draft.                                     *)
C14_OnlyUserMessagesEdited ==
    /\ [](\A m \in AllStored(mockMessages) :
             m.role # "user" =>
                 EditMessage(mockMessages, m.id, <<"h">>, clock + 1)
                     = [store |-> mockMessages, result |-> <<>>])
    /\ [][\A i \in 1..Len(messages) :
             (HandleEditMessage(ShownMessages[i]) /\ ShownMessages[i].role # "user")
             => UNCHANGED <<editingMessage, newMessage, mockMessages, messages>>]_vars

C14_Witness ==
    /\ last = [op |-> "edit", lock |-> FALSE, ok |-> FALSE]
    /\ editingMessage = NoMsg
    /\ \E m \in Range(ShownMessages) : m.role = "agent"

(* C15: an edit of a user message changes only that message: the call to    *)
(* editMessage and the continuation that puts the copy into the list leave  *)
(* the sessions (lastMessageAt, snippet and order, in the service and in    *)
(* the view) and every other message of the store and of the list as they   *)
(* were, and add or remove no message.                                      *)
C15_EditLeavesTheRestAlone ==
    [][/\ (\E now \in Times : SendEdit(now)) =>
             /\ UNCHANGED <<mockSessions, chatSessions>>
             /\ \A c \in ChatIds :
                   /\ Len(mockMessages'[c]) = Len(mockMessages[c])
                   /\ \A i \in 1..Len(mockMessages[c]) :
                         mockMessages[c][i].id # r.editingMessage
                         => mockMessages'[c][i] = mockMessages[c][i]
             /\ Len(messages') = Len(messages)
             /\ \A i \in 1..Len(messages) :
                   messages[i].id # r.editingMessage
                   => DerefMsg(mockMessages', messages'[i]) = DerefMsg(mockMessages, messages[i])
       /\ EditMessageDone =>
             /\ UNCHANGED <<mockSessions, mockMessages, chatSessions>>
             /\ Len(messages') = Len(messages)
             /\ \A i \in 1..Len(messages) :
                   (\/ Head(pending).updated = <<>>
                    \/ messages[i].id # Head(pending).updated[1].id)
                   => messages'[i] = messages[i]]_vars

C15_Witness ==
    /\ pending = <<>> /\ editingMessage = NoMsg
    /\ StoredMsg(mockMessages, 1).content = <<"h">>
    /\ StoredMsg(mockMessages, 1).timestamp > T0
    /\ mockSessions = SeedSessions
    /\ \E m \in ShownWithId(1) : m.content = <<"h">>
    /\ \E m \in ShownWithId(2) : m.content = <<"q">>

\* sent and delivered are the two forms of an acknowledged message
StatusCategory(status) == IF status \in {"sent", "delivered"} THEN "acknowledged" ELSE status

(* C16: an edit keeps the identifier, the status and the position of the    *)
(* edited message and replaces only its content and its timestamp: in the   *)
(* store the message at the same index is the old one with the new content  *)
(* and the time of the edit; in the list the entry at the same index keeps  *)
(* its identifier, its author, its session and its status category and      *)
(* takes the content and the timestamp of the returned copy.                *)
C16_EditKeepsIdStatusPosition ==
    [][/\ (\E now \in Times : SendEdit(now)) =>
             \A c \in ChatIds : \A i \in 1..Len(mockMessages[c]) :
                (mockMessages[c][i].id = r.editingMessage /\ mockMessages[c][i].role = "user")
                => /\ Len(mockMessages'[c]) = Len(mockMessages[c])
                   /\ mockMessages'[c][i].id = mockMessages[c][i].id
                   /\ mockMessages'[c][i].status = mockMessages[c][i].status
                   /\ mockMessages'[c][i].role = mockMessages[c][i].role
                   /\ mockMessages'[c][i].chatId = mockMessages[c][i].chatId
                   /\ mockMessages'[c][i].content = r.newMessage
                   /\ mockMessages'[c][i].timestamp = clock'
       /\ (EditMessageDone /\ Head(pending).updated # <<>>) =>
             /\ Len(messages') = Len(messages)
             /\ \A i \in 1..Len(messages) :
                   messages[i].id = Head(pending).updated[1].id
                   => /\ messages'[i].id = messages[i].id
                      /\ messages'[i].role = messages[i].role
                      /\ messages'[i].chatId = messages[i].chatId
                      /\ StatusCategory(messages'[i].status) = StatusCategory(messages[i].status)
                      /\ messages'[i].content = Head(pending).updated[1].content
                      /\ messages'[i].timestamp = Head(pending).updated[1].timestamp]_vars

C16_Witness ==
    /\ pending = <<>> /\ editingMessage = NoMsg
    /\ mockMessages["s1"][1].id = 1
    /\ mockMessages["s1"][1].status = SeedMessages["s1"][1].status
    /\ mockMessages["s1"][1].content = <<"h">>
    /\ mockMessages["s1"][1].timestamp > T0
    /\ Len(messages) >= 1
    /\ messages[1] = OwnMsg(mockMessages["s1"][1])

(* C16 as stated: the status of the edited message is the same after the   *)
(* edit as before, in the store and in the list.                            *)
C16_EditKeepsStatusExactly ==
    [][/\ (\E now \in Times : SendEdit(now)) =>
             \A c \in ChatIds : \A i \in 1..Len(mockMessages[c]) :
                mockMessages[c][i].id = r.editingMessage
                => mockMessages'[c][i].status = mockMessages[c][i].status
       /\ (EditMessageDone /\ Head(pending).updated # <<>>) =>
             \A i \in 1..Len(messages) :
                messages[i].id = Head(pending).updated[1].id
                => /\ messages'[i].id = messages[i].id
                   /\ messages'[i].status = messages[i].status]_vars

(* C17: a resend of a stored message m1 that is let through appends exactly *)
(* one message, written by the agent, to the stored messages of m1's own    *)
(* session and sets the lastMessageAt of that session to the timestamp of   *)
(* the new message; its continuation appends exactly that message to the    *)
(* displayed list, which is the list of m1's session, and the displayed     *)
(* entry of that session takes the same lastMessageAt.                      *)
C17_ResendAppendsToOwnSession ==
    [][/\ \A id \in ResendIds, now \in Times :
             (/\ HandleResendMessage(id, now)
              /\ ~(r.isStreaming \/ r.currentChatId = NoChat)
              /\ IsStored(mockMessages, id))
             => LET c == StoredMsg(mockMessages, id).chatId
                    new == mockMessages'[c][Len(mockMessages'[c])]
                IN  /\ Len(mockMessages'[c]) = Len(mockMessages[c]) + 1
                    /\ SubSeq(mockMessages'[c], 1, Len(mockMessages[c])) = mockMessages[c]
                    /\ new.role = "agent" /\ new.chatId = c
                    /\ ~IsStored(mockMessages, new.id)
                    /\ \A d \in ChatIds \ {c} : mockMessages'[d] = mockMessages[d]
                    /\ \A i \in 1..Len(mockSessions') :
                          mockSessions'[i].id = c
                          => mockSessions'[i].lastMessageAt = new.timestamp
       /\ (ResendMessageDone /\ Head(pending).response # <<>>)
             => LET new == Head(pending).response[1]
                IN  /\ Len(messages') = Len(messages) + 1
                    /\ SubSeq(messages', 1, Len(messages)) = messages
                    /\ DerefMsg(mockMessages, messages'[Len(messages')]) = DerefMsg(mockMessages, RefMsg(new))
                    /\ \A i \in 1..Len(messages') : messages'[i].chatId = new.chatId
                    /\ \A i \in 1..Len(chatSessions') :
                          chatSessions'[i].id = new.chatId
                          => ShownSessions'[i].lastMessageAt = new.timestamp]_vars

(* C18: a resend issued while the view sees the lock held, or while no      *)
(* session is active, changes nothing: no message is appended to the store  *)
(* or to the list, the sessions are untouched, the lock keeps its value and *)
(* nothing is left waiting.                                                 *)
C18_RejectedResendChangesNothing ==
    [][\A id \in ResendIds, now \in Times :
          (HandleResendMessage(id, now) /\ (r.isStreaming \/ r.currentChatId = NoChat))
          => UNCHANGED <<serviceVars, viewVars, pending, clock>>]_vars

C18_Witness ==
    /\ last = [op |-> "resend", lock |-> TRUE, ok |-> FALSE]
    /\ isStreaming /\ r.isStreaming /\ r.currentChatId # NoChat
    /\ resends = 0

(* C19: when resendMessage or editMessage rejects, the handler that awaited *)
(* it contains the failure: the step that takes up the rejection does not   *)
(* leave it unhandled, and after a rejected resend the lock is released.    *)
C19_RejectionContained ==
    [][(/\ pending # <<>>
        /\ Head(pending).kind = "rejected"
        /\ pending' = Tail(pending))
       => /\ failures'.unhandled = failures.unhandled
          /\ Head(pending).by = "resendMessage" => ~isStreaming']_vars

(* C20: an edit or a resend of an identifier that no stored message has is  *)
(* a no-op: the service returns null (the continuation is handed <<>>), no  *)
(* message is added or modified in the store or in the list, no session is  *)
(* touched in the service or in the view, and the continuation of the       *)
(* resend releases the lock.                                                *)
C20_UnknownIdIsNoOp ==
    [][/\ \A id \in ResendIds, now \in Times :
             (/\ HandleResendMessage(id, now)
              /\ ~(r.isStreaming \/ r.currentChatId = NoChat)
              /\ ~IsStored(mockMessages, id))
             => /\ UNCHANGED <<mockMessages, mockSessions, messages, chatSessions>>
                /\ Len(pending') = Len(pending) + 1
                /\ pending'[Len(pending')].kind = "resendMessage"
                /\ pending'[Len(pending')].response = <<>>
       /\ (ResendMessageDone /\ Head(pending).response = <<>>)
             => /\ UNCHANGED <<mockMessages, mockSessions, messages, chatSessions>>
                /\ ~isStreaming'
       /\ ((\E now \in Times : SendEdit(now)) /\ ~IsStored(mockMessages, r.editingMessage))
             => /\ UNCHANGED <<mockMessages, mockSessions, messages, chatSessions>>
                /\ Len(pending') = Len(pending) + 1
                /\ pending'[Len(pending')].kind = "editMessage"
                /\ pending'[Len(pending')].updated = <<>>
       /\ (EditMessageDone /\ Head(pending).updated = <<>>)
             => UNCHANGED <<mockMessages, mockSessions, messages, chatSessions>>]_vars

C20_Witness ==
    /\ last = [op |-> "resend", lock |-> FALSE, ok |-> TRUE]
    /\ resends = 0 /\ failures.rejected = 0
    /\ pending = <<>> /\ ~isStreaming
    /\ mockMessages = SeedMessages /\ mockSessions = SeedSessions
    /\ Len(messages) = Len(SeedMessages["s1"])

\* the lastMessageAt of the session with this id in a list of sessions
LastMessageAtOf(list, id) == (CHOOSE s \in Range(list) : s.id = id).lastMessageAt

(* C21: the lastMessageAt of a session never decreases, whatever step is    *)
(* taken: neither in the session records of the service nor in the entry    *)
(* of the session shown by the view.                                        *)
C21_LastMessageAtNeverDecreases ==
    [][\A c \in ChatIds :
          /\ LastMessageAtOf(mockSessions', c) >= LastMessageAtOf(mockSessions, c)
          /\ (chatSessions # <<>>) =>
                LastMessageAtOf([i \in 1..Len(chatSessions') |->
                                    DerefSession(mockSessions', chatSessions'[i])], c)
                >= LastMessageAtOf(ShownSessions, c)]_vars

Max(a, b) == IF a > b THEN a ELSE b

\* the reply of the i-th sendMessage call completes in this step
StreamEnds(i) == Len(streams'[i].ends) = Len(streams[i].ends) + 1

(* C22: a send touches the session twice, when the user message is          *)
(* confirmed and when the reply completes.  The confirmation sets the shown *)
(* lastMessageAt to the timestamp of the user message; the completion comes *)
(* later and leaves the lastMessageAt of the session, in the service and in *)
(* the view, equal to the later of the two timestamps, the completion's.    *)
C22_LaterTouchWins ==
    [][/\ SendMessageDone =>
             LastMessageAtOf([i \in 1..Len(chatSessions') |->
                                 DerefSession(mockSessions', chatSessions'[i])],
                             Head(pending).chatId)
             = StoredMsg(mockMessages, Head(pending).userId).timestamp
       /\ \A i \in 1..Len(streams) :
             StreamEnds(i) =>
                LET c == streams[i].chatId
                    confirmed == StoredMsg(mockMessages, streams[i].userMessageId).timestamp
                    completed == StoredMsg(mockMessages', streams[i].agentMessageId).timestamp
                IN  /\ completed = clock'
                    /\ LastMessageAtOf(mockSessions', c) = Max(confirmed, completed)
                    /\ LastMessageAtOf([k \in 1..Len(chatSessions') |->
                                           DerefSession(mockSessions', chatSessions'[k])], c)
                       = Max(confirmed, completed)]_vars

C22_Witness ==
    /\ pending = <<>>
    /\ Len(streams) = 1 /\ streams[1].ends # <<>> /\ streams[1].chatId = "s1"
    /\ LastMessageAtOf(ShownSessions, "s1") = StoredMsg(mockMessages, streams[1].agentMessageId).timestamp
    /\ LastMessageAtOf(mockSessions, "s1") = LastMessageAtOf(ShownSessions, "s1")
    /\ StoredMsg(mockMessages, streams[1].userMessageId).timestamp < LastMessageAtOf(ShownSessions, "s1")
    /\ \E k \in 1..Len(chatSessions) : chatSessions[k].id = "s1" /\ ~chatSessions[k].ref

(* C23: a send that passes the test of handleSendMessage appends, in the    *)
(* same step, exactly one message to the end of the list: a user message    *)
(* with a temporary identifier that no stored and no listed message has,    *)
(* status pending and the draft as content.  The step sets the lock and     *)
(* leaves the session list of the view as it is.                            *)
C23_SendAppendsPlaceholder ==
    [][(\E now \in Times : SendNew(now) \/ SendNewFails(now)) =>
          LET placeholder == messages'[Len(messages')]
          IN  /\ Len(messages') = Len(messages) + 1
              /\ SubSeq(messages', 1, Len(messages)) = messages
              /\ placeholder.role = "user"
              /\ placeholder.status = "pending"
              /\ placeholder.content = r.newMessage
              /\ placeholder.chatId = r.currentChatId
              /\ ~IsStored(mockMessages', placeholder.id)
              /\ \A i \in 1..Len(messages) : messages[i].id # placeholder.id
              /\ isStreaming'
              /\ chatSessions' = chatSessions]_vars

C23_Witness ==
    /\ last = [op |-> "send", lock |-> FALSE, ok |-> TRUE]
    /\ isStreaming /\ Len(streams) = 1
    /\ Len(pending) = 1 /\ pending[1].kind = "sendMessage"
    /\ Len(messages) = Len(SeedMessages["s1"]) + 1
    /\ messages[Len(messages)].id = pending[1].tempUserMessageId
    /\ messages[Len(messages)].status = "pending"
    /\ messages[Len(messages)].content = <<"h">>
    /\ \A k \in 1..Len(chatSessions) : chatSessions[k].ref

(* C24: the continuation of sendMessage puts the confirmed user message,   *)
(* with status delivered, at the index the placeholder had; the list keeps  *)
(* its length, every other entry stays where it was, and no entry with the  *)
(* temporary identifier is left.                                            *)
C24_ConfirmationReplacesPlaceholder ==
    [][SendMessageDone =>
          LET c == Head(pending)
              confirmed == StoredMsg(mockMessages, c.userId)
          IN  /\ Len(messages') = Len(messages)
              /\ \A i \in 1..Len(messages) :
                    IF messages[i].id = c.tempUserMessageId
                    THEN /\ messages'[i].id = c.userId
                         /\ messages'[i].status = "delivered"
                         /\ messages'[i].role = "user"
                         /\ messages'[i].content = confirmed.content
                         /\ messages'[i].timestamp = confirmed.timestamp
                    ELSE messages'[i] = messages[i]
              /\ \A i \in 1..Len(messages') : messages'[i].id # c.tempUserMessageId]_vars

C24_Witness ==
    /\ pending = <<>> /\ Len(streams) = 1 /\ streams[1].streamChunks = <<>>
    /\ Len(messages) = Len(SeedMessages["s1"]) + 1
    /\ messages[Len(messages)] =
          OwnMsg([StoredMsg(mockMessages, streams[1].userMessageId) EXCEPT !.status = "delivered"])
    /\ \A i \in 1..Len(messages) : messages[i].id > 0
    /\ messages[1].id = 1 /\ messages[2].id = 2

(* C25: when the end chunk of a send in a session is processed, that        *)
(* session is the first entry of the session list, in the service and in    *)
(* the view.                                                                *)
C25_SessionMovesToTop ==
    [][\A i \in 1..Len(streams) :
          StreamEnds(i) => /\ mockSessions'[1].id = streams[i].chatId
                           /\ chatSessions'[1].id = streams[i].chatId]_vars

C25_Witness ==
    /\ pending = <<>> /\ Len(streams) = 1
    /\ streams[1].ends # <<>> /\ streams[1].chatId = "s2"
    /\ mockSessions[1].id = "s2" /\ chatSessions[1].id = "s2"
    /\ mockSessions[1].lastMessageAt = clock
    /\ ShownSessions[1].lastMessageAt = clock

(* C26: when sendMessage returns, before any chunk is delivered, the stored *)
(* messages of the session are the ones before the call followed by one     *)
(* message, the returned user message with status sent and the content      *)
(* sent, and the lastMessageAt of the session is the timestamp of that      *)
(* message; the messages of the other sessions are untouched.               *)
C26_SendStoresUserMessage ==
    [][\A now \in Times : SendNew(now) =>
          LET c == r.currentChatId
              returned == pending'[Len(pending')]
              userMessage == mockMessages'[c][Len(mockMessages'[c])]
              stream == streams'[Len(streams')]
          IN  /\ Len(mockMessages'[c]) = Len(mockMessages[c]) + 1
              /\ SubSeq(mockMessages'[c], 1, Len(mockMessages[c])) = mockMessages[c]
              /\ \A d \in ChatIds \ {c} : mockMessages'[d] = mockMessages[d]
              /\ returned.kind = "sendMessage" /\ returned.userId = userMessage.id
              /\ ~IsStored(mockMessages, userMessage.id)
              /\ userMessage.role = "user" /\ userMessage.chatId = c
              /\ userMessage.status = "sent"
              /\ userMessage.content = r.newMessage
              /\ LastMessageAtOf(mockSessions', c) = userMessage.timestamp
              /\ Len(streams') = Len(streams) + 1
              /\ stream.streamChunks = <<>> /\ stream.chunkIndex = 0]_vars

C26_Witness ==
    /\ Len(streams) = 1 /\ streams[1].streamChunks = <<>> /\ streams[1].chatId = "s1"
    /\ Len(pending) = 1 /\ pending[1].kind = "sendMessage"
    /\ Len(mockMessages["s1"]) = Len(SeedMessages["s1"]) + 1
    /\ mockMessages["s1"][Len(mockMessages["s1"])].id = pending[1].userId
    /\ mockMessages["s1"][Len(mockMessages["s1"])].status = "sent"
    /\ LastMessageAtOf(mockSessions, "s1") = mockMessages["s1"][Len(mockMessages["s1"])].timestamp
    /\ LastMessageAtOf(mockSessions, "s1") > T0

(* C27: when the reply of a sendMessage call completes, the call has added  *)
(* exactly two messages to the stored messages of the session: the user     *)
(* message at the call and, now, after it, one agent message with status    *)
(* delivered whose content is the text streamed, the concatenation of the   *)
(* fragments delivered.  With no other call in between the list is two      *)
(* messages longer than before the call.  The lastMessageAt of the session  *)
(* is the timestamp of the stored agent message.                            *)
C27_StreamStoresAgentMessage ==
    [][\A i \in 1..Len(streams) :
          StreamEnds(i) =>
             LET st == streams[i]
                 c == st.chatId
                 agent == mockMessages'[c][Len(mockMessages'[c])]
                 Own(list) == {k \in 1..Len(list) :
                                  list[k].id \in {st.userMessageId, st.agentMessageId}}
             IN  /\ mockMessages'[c] = Append(mockMessages[c], agent)
                 /\ \A d \in ChatIds \ {c} : mockMessages'[d] = mockMessages[d]
                 /\ agent.id = st.agentMessageId /\ agent.role = "agent"
                 /\ agent.chatId = c /\ agent.status = "delivered"
                 /\ agent.content = Concat(TextFragments(Delivered(streams'[i])))
                 /\ agent.content = streams'[i].ends[1][1]
                 /\ Cardinality(Own(mockMessages[c])) = 1
                 /\ Cardinality(Own(mockMessages'[c])) = 2
                 /\ \A k \in Own(mockMessages[c]) :
                       mockMessages[c][k].id = st.userMessageId /\ k < Len(mockMessages'[c])
                 /\ (Len(streams) = 1 /\ resends = 0)
                       => Len(mockMessages'[c]) = Len(SeedMessages[c]) + 2
                 /\ LastMessageAtOf(mockSessions', c) = agent.timestamp]_vars

C27_Witness ==
    /\ Len(streams) = 1 /\ streams[1].ends # <<>> /\ streams[1].chatId = "s1" /\ resends = 0
    /\ Len(mockMessages["s1"]) = Len(SeedMessages["s1"]) + 2
    /\ mockMessages["s1"][3].id = streams[1].userMessageId
    /\ mockMessages["s1"][4].id = streams[1].agentMessageId
    /\ mockMessages["s1"][4].status = "delivered"
    /\ mockMessages["s1"][4].content = <<"a", "b">>
    /\ LastMessageAtOf(mockSessions, "s1") = mockMessages["s1"][4].timestamp

(* C28: for one call of sendMessage with the reply written in it,           *)
(* onStreamUpdate is given the chunks one by one in the order of the list,  *)
(* the end_of_stream chunk last, and by the time the reply has completed it *)
(* has been called exactly five times: for four text chunks, then for the   *)
(* end_of_stream chunk.                                                     *)
C28_FiveUpdatesPerCall ==
    \A i \in 1..Len(streams) :
        LET given == Delivered(streams[i])
        IN  /\ \A k \in 1..Len(given) :
                  given[k].type = "end_of_stream" => k = Len(given)
            /\ streams[i].ends # <<>> =>
                  /\ Len(given) = 5
                  /\ \A k \in 1..4 : given[k].type = "text_chunk"
                  /\ given[5].type = "end_of_stream"

\* the terminal signals a call has given: calls of onStreamEnd and of onStreamError
Signals(st) == Len(st.ends) + st.errors

WithId(list, id) == {k \in 1..Len(list) : list[k].id = id}

\* the places of the store that hold a message with this id
StoredWithId(store, id) ==
    {p \in ChatIds \X (1..(2 * MaxClock)) : p[2] <= Len(store[p[1]]) /\ store[p[1]][p[2]].id = id}

(* C30: when the end of a reply is delivered a second time for the same     *)
(* message id, the message with that id shows the same content and the same *)
(* status as before, the list holds as many entries with that id as before  *)
(* and is as long as before, and the store is untouched; the store never   *)
(* holds two messages with the id of a reply.                               *)
C30_SecondEndChangesNothing ==
    /\ [](\A i \in 1..Len(streams) :
             Cardinality(StoredWithId(mockMessages, streams[i].agentMessageId)) <= 1)
    /\ [][\A i \in 1..Len(streams), now \in TimerTimes :
          EndAgain(i, now) =>
             LET id == streams[i].agentMessageId
             IN  /\ Len(messages') = Len(messages)
                 /\ WithId(messages', id) = WithId(messages, id)
                 /\ \A k \in WithId(messages, id) :
                       /\ DerefMsg(mockMessages', messages'[k]).content = ShownMessages[k].content
                       /\ messages'[k].status = messages[k].status
                 /\ \A k \in 1..Len(messages) : k \notin WithId(messages, id)
                       => messages'[k] = messages[k]
                 /\ mockMessages' = mockMessages]_vars

C30_Witness ==
    /\ Len(streams) = 1 /\ Len(streams[1].ends) = 2
    /\ streams[1].ends[1] = streams[1].ends[2]
    /\ Cardinality(WithId(messages, streams[1].agentMessageId)) = 1
    /\ \A m \in ShownWithId(streams[1].agentMessageId) :
          m.status = "delivered" /\ m.content = <<"a">>
    /\ Cardinality(StoredWithId(mockMessages, streams[1].agentMessageId)) = 1

(* C31: a chunk that reaches the view for a message id after the reply's    *)
(* terminal chunk (end_of_stream or error_chunk) has been processed changes *)
(* neither the content nor the status of the message with that id.          *)
C31_LateChunkIgnored ==
    [][\A i \in 1..Len(streams), chunk \in BodyChunks, now \in TimerTimes :
          LateChunk(i, chunk, now) =>
             \A k \in WithId(messages, streams[i].agentMessageId) :
                /\ k \in WithId(messages', streams[i].agentMessageId)
                /\ DerefMsg(mockMessages', messages'[k]).content = ShownMessages[k].content
                /\ messages'[k].status = messages[k].status]_vars

\* the i-th reply gets its first chunk in this step
FirstChunk(i) == streams[i].chunkIndex = 0 /\ streams'[i].chunkIndex = 1

(* C32: when the first chunk of a reply is delivered, whatever its kind, the *)
(* message list holds an agent message with the reply's message id; it is   *)
(* streaming, or delivered when that chunk was the end of the reply, so a   *)
(* reply without a text chunk still has its agent message in the list.      *)
C32_FirstChunkCreatesMessage ==
    [][\A i \in 1..Len(streams) :
          FirstChunk(i) =>
             \E k \in 1..Len(messages') :
                /\ messages'[k].id = streams[i].agentMessageId
                /\ messages'[k].role = "agent"
                /\ messages'[k].status =
                      (IF streams'[i].ends # <<>> THEN "delivered" ELSE "streaming")]_vars

\* the identifiers of a list of messages, in the order of the list
IdsOf(list) == [k \in 1..Len(list) |-> list[k].id]

(* C33: getMessages for an id that no session has returns the empty list;   *)
(* for a session it returns the session's stored messages, each with the    *)
(* session's id as chatId, in the order in which they were stored (a later  *)
(* message is stored behind the earlier ones); it never fails and changes   *)
(* nothing in the service.                                                  *)
C33_GetMessagesTotal ==
    /\ [][\A chatId \in ChatIds \cup {InvalidChatId} :
             ReadMessages(chatId) =>
                /\ chatId \notin ChatIds => messages' = <<>>
                /\ chatId \in ChatIds =>
                      /\ [k \in 1..Len(messages') |-> [DerefMsg(mockMessages, messages'[k])
                                                          EXCEPT !.ref = FALSE]]
                            = MapSeq(mockMessages[chatId], OwnMsg)
                      /\ \A k \in 1..Len(messages') : messages'[k].chatId = chatId
                /\ UNCHANGED serviceVars]_vars
    /\ [][\A c \in ChatIds :
             IsPrefix(IdsOf(mockMessages[c]), IdsOf(mockMessages'[c]))]_vars

C33_Witness ==
    /\ last = [op |-> "getMessages", lock |-> FALSE, ok |-> TRUE]
    /\ Len(messages) = 4
    /\ IdsOf(messages) = <<1, 2, 4, 5>>
    /\ messages[4].role = "agent" /\ messages[4].status = "delivered"
    /\ \E c \in ChatIds : IdsOf(mockMessages[c]) = IdsOf(messages)

\* no two places of the store hold messages with the same identifier
StoreIdsUnique ==
    \A m \in AllStored(mockMessages) : Cardinality(StoredWithId(mockMessages, m.id)) = 1

\* no two entries of the message list have the same identifier
ListIdsUnique ==
    \A i, j \in 1..Len(messages) : i # j => messages[i].id # messages[j].id

(* C34: message identifiers are unique: no two messages of the store, in    *)
(* whatever sessions, and no two messages of the list share an identifier,  *)
(* and a message whose identifier the store already holds is not appended.  *)
C34_IdentifiersUnique ==
    /\ [](StoreIdsUnique /\ ListIdsUnique)
    /\ [][(\E c \in ChatIds, content \in MockContents, id \in StoredIds(mockMessages),
              now \in MockTimes : SendWithId(c, content, id, now))
          => UNCHANGED mockMessages]_vars

\* the entries of the message list with this status
WithStatus(status) == {k \in 1..Len(messages) : messages[k].status = status}

(* C35: at most one reply is in progress: at most one message of the list   *)
(* has status streaming, and none has it while the lock is free.            *)
C35_StreamingOnlyUnderLock ==
    /\ Cardinality(WithStatus("streaming")) <= 1
    /\ ~isStreaming => WithStatus("streaming") = {}

(* C36: a message is pending only while the lock is held: when the lock is  *)
(* free, no message of the list has status pending.                         *)
C36_PendingOnlyUnderLock ==
    ~isStreaming => WithStatus("pending") = {}

(* C37: edit mode and the lock exclude each other: in no state is a message *)
(* in edit mode while the lock is held.                                     *)
C37_EditExcludesLock ==
    ~(editingMessage # NoMsg /\ isStreaming)

(* C38: the message list belongs to the active session: every message of   *)
(* the list has the active session's id as chatId.                          *)
C38_ListBelongsToActiveSession ==
    \A k \in 1..Len(messages) : messages[k].chatId = currentChatId

(* C39: a message load that completes after a send has started removes      *)
(* neither the pending placeholder nor the streaming agent message: every   *)
(* entry of the list that is pending or streaming is still in the list when *)
(* the load has completed.                                                  *)
C39_LoadKeepsMessagesInFlight ==
    [][FetchMessagesDone =>
          \A k \in WithStatus("pending") \cup WithStatus("streaming") :
             WithId(messages', messages[k].id) # {}]_vars

\* identifier and content of each message of a list, in the order of the list
IdsAndContents(list) == [k \in 1..Len(list) |-> <<list[k].id, list[k].content>>]

(* C40: whenever the lock is free and the sends, edits and resends issued   *)
(* so far have completed (nothing is left to run, no call was rejected and  *)
(* every reply has ended), the message list and the list the service has    *)
(* stored for the active session hold the same identifiers with the same    *)
(* contents in the same order.                                              *)
C40_ListMatchesStore ==
    (/\ ~isStreaming /\ pending = <<>> /\ r = Rendered /\ currentChatId # NoChat
     /\ failures.rejected = 0
     /\ \A i \in 1..Len(streams) : streams[i].ends # <<>>)
    => IdsAndContents(ShownMessages) = IdsAndContents(GetMessages(mockMessages, currentChatId))

====
